---- MODULE Spec2Model ----
(***************************************************************************)
(* Verification model of the RLG-Projects repository.                      *)
(*                                                                         *)
(* Part 1: the overlap calculator's urgency levels, as configured in       *)
(* src/api/sadc-openapi.yml (reporting_engine.team_analytics).  The        *)
(* configuration gives one entry per level, each a condition on the        *)
(* length of the overlap:                                                  *)
(*     "red":   "<1h_overlap"                                              *)
(*     "amber": "1-2h_overlap"                                             *)
(*     "green": ">2h_overlap"                                              *)
(* Overlap lengths are counted in whole seconds.                           *)
(*                                                                         *)
(* Part 2: NetworkHandler.fetchWithRetry (src/unnamed/part_005).           *)
(* Part 3: NetworkHandler's queue, pauseOperations and resumeOperations.    *)
(* Part 4: RLGCore's start-up and its rlgUpdate handler.                    *)
(* Part 5: RLGChart.render and RLGVisual.render (src/Frontend/js).         *)
(*                                                                         *)
(* Each part has its own specification; a specification holds the          *)
(* variables of the other parts at their idle values.                      *)
(***************************************************************************)
EXTENDS Integers, FiniteSets, Sequences

\* Longest overlap, in seconds, that the model measures.
MaxOverlapSeconds == 7260

\* "<1h_overlap": the bound of the red entry, in seconds.
RedBelowSeconds == 3600

\* "1-2h_overlap": the two ends of the amber entry, in seconds.
AmberFromSeconds == 3600
AmberToSeconds == 7200

\* ">2h_overlap": the bound of the green entry, in seconds.
GreenAboveSeconds == 7200

\* fetchWithRetry(url, method, data, options = {}, retries = 3)
DefaultRetries == 3

VARIABLES
    phase,      \* "measured" or "classified"
    overlap,    \* length in seconds of the overlap at hand
    urgency,    \* the set of urgency levels whose entry matches overlap
    fMethod,    \* fetchWithRetry: the method argument ("GET" from get, "POST" from post)
    fPc,        \* fetchWithRetry: where the call stands
    fRetries,   \* fetchWithRetry: the retries argument of the innermost invocation
    fIssued,    \* fetchWithRetry: number of fetch() calls issued so far
    fLog,       \* fetchWithRetry: how each settled fetch() ended, in order
    fResult,    \* fetchWithRetry: what the promise returned to the caller settled with
    queue,      \* NetworkHandler.queue
    online,     \* NetworkHandler.online
    sent,       \* NetworkHandler: the fetchWithRetry calls started, in order
    calls,      \* NetworkHandler: number of get and post calls made so far
    offlineCalls, \* NetworkHandler: how many of them were made while online was false
    lastOp,     \* NetworkHandler: the method that ran last
    corePc,     \* RLGCore: "loading" until new RLGCore() has returned, then "constructed"
    rlgBound,   \* RLGCore: whether const RLG has been initialised
    language,   \* navigator.language
    currentRegion, \* CulturalManager.currentRegion
    regionStored,  \* CulturalManager: whether detectRegionalSettings has assigned currentRegion
    culturalPc, \* CulturalManager.init: where the call stands
    regionRead, \* ComplianceEngine.checkLocalRegulations: the region it read, or "unread"
    checkPc,    \* ComplianceEngine.checkLocalRegulations: where the call stands
    activeRules, \* ComplianceEngine.activeRules
    evs,        \* RLGCore.handleDataUpdate: the rlgUpdate events handled so far
    callLog,    \* RLGCore.handleDataUpdate: the calls its callbacks made, in order
    rClass,     \* render: "RLGChart" or "RLGVisual"
    rType,      \* render: this.config.type
    rSupplied,  \* render: whether the page supplies what the stages call and the two files leave undefined
    rHandlerSupplied, \* render: whether it supplies what the error handler calls and they leave undefined
    rPc,        \* render: "idle", "try", "catch", "resolved" or "rejected"
    rRan,       \* render: the stages of the try block that returned, in order
    rThrown,    \* render: the stage whose error reached the catch block, or "none"
    rFallbacks  \* render: times the container content was replaced with the fallback

urgencyVars == <<phase, overlap, urgency>>
fetchVars == <<fMethod, fPc, fRetries, fIssued, fLog, fResult>>

netVars == <<queue, online, sent, calls, offlineCalls, lastOp>>

coreVars == <<corePc, rlgBound, language, currentRegion, regionStored, culturalPc,
              regionRead, checkPc, activeRules, evs, callLog>>

renderVars == <<rClass, rType, rSupplied, rHandlerSupplied, rPc, rRan, rThrown, rFallbacks>>

vars == <<urgencyVars, fetchVars, netVars, coreVars, renderVars>>

\* No overlap is being classified.
urgencyIdle ==
    /\ phase = "classified"
    /\ overlap = 0
    /\ urgency = {"red"}

\* No fetchWithRetry call is under way.
fetchIdle ==
    /\ fMethod = "GET"
    /\ fPc = "idle"
    /\ fRetries = 0
    /\ fIssued = 0
    /\ fLog = <<>>
    /\ fResult = <<"pending">>

\* The NetworkHandler has just been constructed on line and nothing is queued.
netIdle ==
    /\ queue = <<>>
    /\ online = TRUE
    /\ sent = <<>>
    /\ calls = 0
    /\ offlineCalls = 0
    /\ lastOp = "constructor"

\* The script of RLGCore has not run.
coreIdle ==
    /\ corePc = "idle"
    /\ rlgBound = FALSE
    /\ language = "en-US"
    /\ currentRegion = "GLOBAL"
    /\ regionStored = FALSE
    /\ culturalPc = "notcalled"
    /\ regionRead = "unread"
    /\ checkPc = "notcalled"
    /\ activeRules = <<"none">>
    /\ evs = <<>>
    /\ callLog = <<>>

\* No render call is under way.
renderIdle ==
    /\ rClass = "RLGChart"
    /\ rType = "bar"
    /\ rSupplied = FALSE
    /\ rHandlerSupplied = FALSE
    /\ rPc = "idle"
    /\ rRan = <<>>
    /\ rThrown = "none"
    /\ rFallbacks = 0

\* "red": "<1h_overlap"
red(d) == d < RedBelowSeconds

\* "amber": "1-2h_overlap"
amber(d) == d >= AmberFromSeconds /\ d <= AmberToSeconds

\* A green entry that also takes the bound itself (">=2h").
green_inclusive(d) == d >= GreenAboveSeconds

\* "green": ">2h_overlap"
green(d) == d > GreenAboveSeconds

\* The levels of urgency_levels whose entry matches an overlap of d seconds.
urgency_levels(d) ==
    {l \in {"red", "amber", "green"} :
        \/ l = "red" /\ red(d)
        \/ l = "amber" /\ amber(d)
        \/ l = "green" /\ green(d)}

\* An overlap of any length up to the bound has been measured and is handed
\* to the overlap calculator.
Init ==
    /\ phase = "measured"
    /\ overlap \in 0..MaxOverlapSeconds
    /\ urgency = {}
    /\ fetchIdle
    /\ netIdle
    /\ coreIdle
    /\ renderIdle

\* The overlap calculator looks the overlap up in urgency_levels.
ClassifyOverlap ==
    /\ phase = "measured"
    /\ phase' = "classified"
    /\ urgency' = urgency_levels(overlap)
    /\ UNCHANGED overlap
    /\ UNCHANGED <<fetchVars, netVars, coreVars, renderVars>>

Next == ClassifyOverlap

Spec == Init /\ [][Next]_vars

\* The shape of the state; once classified, an overlap of any length carries
\* exactly one of the three levels.
TypeOK ==
    /\ phase \in {"measured", "classified"}
    /\ overlap \in 0..MaxOverlapSeconds
    /\ urgency \subseteq {"red", "amber", "green"}
    /\ phase = "classified" => Cardinality(urgency) = 1

\* C9 (as amended): the urgency of an overlap is decided by its length
\* alone, and with the configured levels 59m59s is red, 1h00m00s is amber,
\* 1h59m59s is amber, 2h00m00s is still amber and 2h00m01s is green; each of
\* these lengths gets exactly that one level.
C9_BoundaryLevels ==
    phase = "classified" =>
        /\ overlap = 3599 => urgency = {"red"}
        /\ overlap = 3600 => urgency = {"amber"}
        /\ overlap = 7199 => urgency = {"amber"}
        /\ overlap = 7200 => urgency = {"amber"}
        /\ overlap = 7201 => urgency = {"green"}

\* An overlap of exactly two hours has been classified, as amber.
C9_Witness ==
    /\ phase = "classified"
    /\ overlap = 7200
    /\ urgency = {"amber"}

\* C9 as stated: 59m59s red, 1h00m00s amber, 1h59m59s amber, 2h00m00s green.
C9_Original ==
    phase = "classified" =>
        /\ overlap = 3599 => urgency = {"red"}
        /\ overlap = 3600 => urgency = {"amber"}
        /\ overlap = 7199 => urgency = {"amber"}
        /\ overlap = 7200 => urgency = {"green"}

(***************************************************************************)
(* Part 2: NetworkHandler.fetchWithRetry, src/unnamed/part_005:274-291.    *)
(*                                                                         *)
(*   try {                                                                 *)
(*     const response = await fetch(url, {...});                           *)
(*     if (!response.ok) throw new Error('Network Error');                 *)
(*     return response.json();                                             *)
(*   } catch (error) {                                                     *)
(*     if (retries > 0) {                                                  *)
(*       await new Promise(resolve => setTimeout(resolve, 1000));          *)
(*       return this.fetchWithRetry(url, method, data, options, retries-1);*)
(*     }                                                                   *)
(*     throw error;                                                        *)
(*   }                                                                     *)
(*                                                                         *)
(* One call made through get or post is followed from its first fetch()    *)
(* until the promise it returned settles.  response.json() is returned     *)
(* without await, so its rejection passes by the catch block.              *)
(***************************************************************************)

\* How one fetch() can end: the promise rejects, or it resolves with a
\* response whose ok is false, or with one whose ok is true.
FetchOutcomes == {"rejected", "notok", "ok"}

\* The error the catch block receives for a failed attempt.
errorOf(o) == IF o = "rejected" THEN "fetch rejected" ELSE "Network Error"

\* A retry test that still retries when no retry is left.
retriesLeft_inclusive(r) == r >= 0

\* if (retries > 0)
retriesLeft(r) == r > 0

\* get(url, options) and post(url, data, options) call fetchWithRetry with
\* the default retries; the async function runs up to its first await, so
\* the first fetch() has been issued.
InitFetch ==
    /\ urgencyIdle
    /\ netIdle
    /\ coreIdle
    /\ renderIdle
    /\ fMethod \in {"GET", "POST"}
    /\ fPc = "fetching"
    /\ fRetries = DefaultRetries
    /\ fIssued = 1
    /\ fLog = <<>>
    /\ fResult = <<"pending">>

\* The pending fetch() settles with outcome o.  An ok response leads to
\* return response.json(); anything else lands in the catch block, which
\* either starts the one-second wait or rethrows.
FetchSettles(o) ==
    /\ fPc = "fetching"
    /\ fLog' = Append(fLog, o)
    /\ IF o = "ok"
          THEN /\ fPc' = "parsing"
               /\ fResult' = fResult
          ELSE IF retriesLeft(fRetries)
          THEN /\ fPc' = "backoff"
               /\ fResult' = fResult
          ELSE /\ fPc' = "rejected"
               /\ fResult' = <<"error", errorOf(o), Len(fLog) + 1>>
    /\ UNCHANGED <<fMethod, fRetries, fIssued>>
    /\ UNCHANGED <<urgencyVars, netVars, coreVars, renderVars>>

\* The one-second timer fires and fetchWithRetry is called again with
\* retries - 1; the new invocation issues its fetch().
BackoffElapses ==
    /\ fPc = "backoff"
    /\ fPc' = "fetching"
    /\ fRetries' = fRetries - 1
    /\ fIssued' = fIssued + 1
    /\ UNCHANGED <<fMethod, fLog, fResult>>
    /\ UNCHANGED <<urgencyVars, netVars, coreVars, renderVars>>

\* The promise of response.json() settles: it resolves with the parsed body
\* or rejects because the body is not JSON.  The call settles the same way.
JsonSettles(parsed) ==
    /\ fPc = "parsing"
    /\ IF parsed
          THEN /\ fPc' = "resolved"
               /\ fResult' = <<"body", Len(fLog)>>
          ELSE /\ fPc' = "rejected"
               /\ fResult' = <<"error", "body is not JSON", Len(fLog)>>
    /\ UNCHANGED <<fMethod, fRetries, fIssued, fLog>>
    /\ UNCHANGED <<urgencyVars, netVars, coreVars, renderVars>>

NextFetch ==
    \/ \E o \in FetchOutcomes : FetchSettles(o)
    \/ BackoffElapses
    \/ \E parsed \in BOOLEAN : JsonSettles(parsed)

SpecFetch == InitFetch /\ [][NextFetch]_vars

\* The attempts of the log that failed (rejected fetch or non-ok response).
failedAttempts == {i \in 1..Len(fLog) : fLog[i] # "ok"}

\* C26 (as amended): with the default retries = 3 one call issues at most 4
\* fetch attempts; after the first attempt whose response is ok it makes no
\* further attempt and settles as that response's json() does, returning the
\* parsed body or rejecting with json()'s error; if all 4 attempts fail
\* (rejected fetch or non-ok response) it rejects with the error of the last
\* attempt; the recursion always terminates (retries falls from 3 to 0 as
\* the attempts rise from 1 to 4).
C26_AtMostFourAttempts ==
    /\ fIssued <= DefaultRetries + 1
    /\ fRetries >= 0
    /\ fIssued + fRetries = DefaultRetries + 1
    /\ \A i \in 1..Len(fLog) : fLog[i] = "ok" => i = Len(fLog) /\ fIssued = i
    /\ fPc = "resolved" =>
          /\ fLog[Len(fLog)] = "ok"
          /\ fResult = <<"body", Len(fLog)>>
    /\ fPc = "rejected" =>
          \/ /\ fLog[Len(fLog)] = "ok"
             /\ fResult = <<"error", "body is not JSON", Len(fLog)>>
          \/ /\ failedAttempts = 1..(DefaultRetries + 1)
             /\ fResult = <<"error", errorOf(fLog[DefaultRetries + 1]), DefaultRetries + 1>>
    /\ failedAttempts = 1..(DefaultRetries + 1) =>
          /\ fPc = "rejected"
          /\ fResult = <<"error", errorOf(fLog[DefaultRetries + 1]), DefaultRetries + 1>>

\* Three attempts failed, the fourth got an ok response and the call
\* returned its parsed body.
C26_Witness ==
    /\ fPc = "resolved"
    /\ failedAttempts = 1..DefaultRetries
    /\ fIssued = DefaultRetries + 1
    /\ fResult = <<"body", DefaultRetries + 1>>

\* C26 as stated: at most 4 attempts; the call returns the parsed body of the
\* first attempt whose response is ok and makes no further attempt; if all 4
\* attempts fail it rejects with the error of the last attempt.
C26_Original ==
    /\ fIssued <= DefaultRetries + 1
    /\ \A i \in 1..Len(fLog) : fLog[i] = "ok" => i = Len(fLog) /\ fIssued = i
    /\ (fPc \in {"resolved", "rejected"} /\ fLog[Len(fLog)] = "ok") =>
          /\ fPc = "resolved"
          /\ fResult = <<"body", Len(fLog)>>
    /\ failedAttempts = 1..(DefaultRetries + 1) =>
          /\ fPc = "rejected"
          /\ fResult = <<"error", errorOf(fLog[DefaultRetries + 1]), DefaultRetries + 1>>

(***************************************************************************)
(* Part 3: NetworkHandler's queue, src/unnamed/part_005:260-307, driven by *)
(* the 'online' and 'offline' listeners of RLGCore.setupGlobalListeners    *)
(* (52-56) and by callers of get and post.                                 *)
(*                                                                         *)
(* sent records every fetchWithRetry call in the order the calls are made; *)
(* each call issues its first fetch() before it returns to its caller.     *)
(* No method of the class adds to queue.  queue is a plain property, so    *)
(* the specification lets the handler start with any queue up to MaxQueue  *)
(* entries: pauseOperations, resumeOperations and processQueue are checked *)
(* for every content of the queue, not only the empty one.                 *)
(***************************************************************************)

\* Longest queue the model starts with.
MaxQueue == 2

\* Most get and post calls the model makes.
MaxCalls == 2

Urls == {"/audit", "/sync"}

\* What a queue entry holds, { url, method, data }; data is left out.
Entries == [url : Urls, method : {"GET", "POST"}]

\* All sequences over S of length at most n.
RECURSIVE SeqsUpTo(_, _)
SeqsUpTo(S, n) ==
    IF n = 0 THEN {<<>>}
    ELSE LET shorter == SeqsUpTo(S, n - 1)
         IN  shorter \cup {Append(q, e) : q \in {x \in shorter : Len(x) = n - 1}, e \in S}

\* A processQueue that takes the newest entry first (pop in place of shift).
RECURSIVE processQueue_newestFirst(_, _, _)
processQueue_newestFirst(q, on, out) ==
    IF Len(q) > 0 /\ on
    THEN processQueue_newestFirst(SubSeq(q, 1, Len(q) - 1), on, Append(out, q[Len(q)]))
    ELSE [queue |-> q, sent |-> out]

\* processQueue():
\*   while (this.queue.length > 0 && this.online) {
\*     const { url, method, data } = this.queue.shift();
\*     this.fetchWithRetry(url, method, data);
\*   }
\* q is the queue, on is this.online, out the calls started so far.
RECURSIVE processQueue(_, _, _)
processQueue(q, on, out) ==
    IF Len(q) > 0 /\ on
    THEN processQueue(Tail(q), on, Append(out, Head(q)))
    ELSE [queue |-> q, sent |-> out]

\* constructor(): this.queue = []; this.online = navigator.onLine.
InitNet ==
    /\ urgencyIdle
    /\ fetchIdle
    /\ coreIdle
    /\ renderIdle
    /\ queue \in SeqsUpTo(Entries, MaxQueue)
    /\ online \in BOOLEAN
    /\ sent = <<>>
    /\ calls = 0
    /\ offlineCalls = 0
    /\ lastOp = "constructor"

\* pauseOperations(): this.online = false.
pauseOperations ==
    /\ online' = FALSE
    /\ lastOp' = "pauseOperations"
    /\ UNCHANGED <<queue, sent, calls, offlineCalls>>
    /\ UNCHANGED <<urgencyVars, fetchVars, coreVars, renderVars>>

\* resumeOperations(): this.online = true; this.processQueue().
resumeOperations ==
    /\ online' = TRUE
    /\ LET r == processQueue(queue, TRUE, sent)
       IN  /\ queue' = r.queue
           /\ sent' = r.sent
    /\ lastOp' = "resumeOperations"
    /\ UNCHANGED <<calls, offlineCalls>>
    /\ UNCHANGED <<urgencyVars, fetchVars, coreVars, renderVars>>

\* get(url, options): return this.fetchWithRetry(url, 'GET', null, options).
get(url) ==
    /\ calls < MaxCalls
    /\ calls' = calls + 1
    /\ offlineCalls' = (IF online THEN offlineCalls ELSE offlineCalls + 1)
    /\ sent' = Append(sent, [url |-> url, method |-> "GET"])
    /\ lastOp' = "get"
    /\ UNCHANGED <<queue, online>>
    /\ UNCHANGED <<urgencyVars, fetchVars, coreVars, renderVars>>

\* post(url, data, options): return this.fetchWithRetry(url, 'POST', data, options).
post(url) ==
    /\ calls < MaxCalls
    /\ calls' = calls + 1
    /\ offlineCalls' = (IF online THEN offlineCalls ELSE offlineCalls + 1)
    /\ sent' = Append(sent, [url |-> url, method |-> "POST"])
    /\ lastOp' = "post"
    /\ UNCHANGED <<queue, online>>
    /\ UNCHANGED <<urgencyVars, fetchVars, coreVars, renderVars>>

NextNet ==
    \/ pauseOperations
    \/ resumeOperations
    \/ \E url \in Urls : get(url)
    \/ \E url \in Urls : post(url)

SpecNet == InitNet /\ [][NextNet]_vars

\* C27: pauseOperations only sets online to false and leaves the queue (and
\* the calls started) unchanged; resumeOperations sets online to true and
\* starts one call for every queued entry, in FIFO order, leaving the queue
\* empty; a get or post made while online is false is sent at once and not
\* queued; no operation of the class ever adds an entry to the queue.
C27_QueueFrame ==
    [][ /\ lastOp' = "pauseOperations" =>
              online' = FALSE /\ queue' = queue /\ sent' = sent
        /\ lastOp' = "resumeOperations" =>
              online' = TRUE /\ queue' = <<>> /\ sent' = sent \o queue
        /\ lastOp' \in {"get", "post"} =>
              /\ queue' = queue
              /\ online' = online
              /\ Len(sent') = Len(sent) + 1
              /\ SubSeq(sent', 1, Len(sent)) = sent
              /\ sent'[Len(sent')].method = (IF lastOp' = "get" THEN "GET" ELSE "POST")
        /\ Len(queue') <= Len(queue) ]_vars

\* After a post made off line was sent at once, resumeOperations has started
\* the two different queued entries behind it, oldest first, and the queue is
\* empty.
C27_Witness ==
    /\ lastOp = "resumeOperations"
    /\ offlineCalls = 1
    /\ online = TRUE
    /\ queue = <<>>
    /\ Len(sent) = 3
    /\ sent[1].method = "POST"
    /\ sent[2] = [url |-> "/audit", method |-> "GET"]
    /\ sent[3] = [url |-> "/sync", method |-> "POST"]

(***************************************************************************)
(* Part 4: RLGCore, src/unnamed/part_005:4-66, with the parts of           *)
(* CulturalManager (142-188) and ComplianceEngine (191-216) it drives.     *)
(*                                                                         *)
(* The script ends with  const RLG = new RLGCore();  (311).  The           *)
(* constructor runs to its end without interruption; the binding RLG is    *)
(* initialised only when it has returned.  loadCriticalServices (37-42)    *)
(* calls cultural.init and compliance.checkLocalRegulations one after the  *)
(* other and awaits neither:                                               *)
(*   - init runs into detectRegionalSettings up to  await fetch(...)  and  *)
(*     continues only when that fetch has settled;                         *)
(*   - checkLocalRegulations runs its body at once; the body starts with   *)
(*     RLG.modules.cultural.currentRegion.                                 *)
(* Classes that the file uses but does not define (DataProtectionManager,  *)
(* TelemetryService) are supplied from outside; what their methods return  *)
(* is left open.                                                           *)
(***************************************************************************)

\* Most rlgUpdate events the model dispatches.
MaxEvents == 2

Languages == {"en-US", "de-DE"}

\* The detail of an rlgUpdate event.
Payloads == {"report", "sprint"}

\* regionData is the Response that fetch() resolved with (156-159); it is
\* never parsed, and a Response has no property named region.
regionDataRegion == "undefined"

\* regionData.region || 'GLOBAL'
regionOrGlobal(region) == IF region = "undefined" THEN "GLOBAL" ELSE region

\* checkLocalRegulations(), up to its await: with RLG initialised it reads
\* currentRegion and starts import(`/compliance/${region}.js`); with RLG not
\* yet initialised the reference to RLG throws and the call rejects.
checkLocalRegulations(bound, region) ==
    IF bound
    THEN [pc |-> "importing", read |-> region]
    ELSE [pc |-> "rejected", read |-> "unread"]

InitCore ==
    /\ urgencyIdle
    /\ fetchIdle
    /\ netIdle
    /\ renderIdle
    /\ corePc = "loading"
    /\ rlgBound = FALSE
    /\ language \in Languages
    /\ currentRegion = "GLOBAL"
    /\ regionStored = FALSE
    /\ culturalPc = "notcalled"
    /\ regionRead = "unread"
    /\ checkPc = "notcalled"
    /\ activeRules = <<"none">>
    /\ evs = <<>>
    /\ callLog = <<>>

\* const RLG = new RLGCore(): initFramework, setupErrorHandling and
\* loadCriticalServices, then the binding of RLG.
NewRLGCore ==
    /\ corePc = "loading"
    /\ culturalPc' = "detecting"
    /\ LET c == checkLocalRegulations(rlgBound, currentRegion)
       IN  /\ checkPc' = c.pc
           /\ regionRead' = c.read
    /\ rlgBound' = TRUE
    /\ corePc' = "constructed"
    /\ UNCHANGED <<language, currentRegion, regionStored, activeRules, evs, callLog>>
    /\ UNCHANGED <<urgencyVars, fetchVars, netVars, renderVars>>

\* The fetch of /api/region-detection settles.  When it resolves,
\* detectRegionalSettings stores the region and init goes on to
\* loadHolidayData; when it rejects, init rejects.
DetectSettles(resolves) ==
    /\ culturalPc = "detecting"
    /\ IF resolves
          THEN /\ currentRegion' = regionOrGlobal(regionDataRegion)
               /\ regionStored' = TRUE
               /\ culturalPc' = "loadingHolidays"
          ELSE /\ culturalPc' = "rejected"
               /\ UNCHANGED <<currentRegion, regionStored>>
    /\ UNCHANGED <<corePc, rlgBound, language, regionRead, checkPc, activeRules, evs, callLog>>
    /\ UNCHANGED <<urgencyVars, fetchVars, netVars, renderVars>>

\* The holiday fetch settles (its failure is caught, 169-171) and
\* setupLocalization runs; localeSettings was set from regionData.settings,
\* which a Response does not have, so this.localeSettings.locale throws and
\* init rejects.
HolidaysSettle ==
    /\ culturalPc = "loadingHolidays"
    /\ culturalPc' = "rejected"
    /\ UNCHANGED <<corePc, rlgBound, language, currentRegion, regionStored,
                   regionRead, checkPc, activeRules, evs, callLog>>
    /\ UNCHANGED <<urgencyVars, fetchVars, netVars, renderVars>>

\* What validateData(data) can settle with: dataProtection.anonymize(data)
\* returns (or resolves with) the anonymized data, or it throws (or rejects).
validateOutcomes(data) == {<<"resolved", <<"anonymized", data>> >>,
                           <<"rejected", <<"cannot anonymize", data>> >>}

\* An rlgUpdate event arrives: handleDataUpdate(e.detail) calls
\* validateData and attaches its two callbacks.
RlgUpdate(data) ==
    /\ corePc = "constructed"
    /\ Len(evs) < MaxEvents
    /\ evs' = Append(evs, [data |-> data, validate |-> <<"pending">>, handled |-> FALSE])
    /\ UNCHANGED <<corePc, rlgBound, language, currentRegion, regionStored, culturalPc,
                   regionRead, checkPc, activeRules, callLog>>
    /\ UNCHANGED <<urgencyVars, fetchVars, netVars, renderVars>>

\* The promise of validateData settles for event e.
ValidateSettles(e, outcome) ==
    /\ e \in 1..Len(evs)
    /\ evs[e].validate = <<"pending">>
    /\ outcome \in validateOutcomes(evs[e].data)
    /\ evs' = [evs EXCEPT ![e].validate = outcome]
    /\ UNCHANGED <<corePc, rlgBound, language, currentRegion, regionStored, culturalPc,
                   regionRead, checkPc, activeRules, callLog>>
    /\ UNCHANGED <<urgencyVars, fetchVars, netVars, renderVars>>

\* A fulfilment callback that hands on the event's own data.
onFulfilled_rawData(e) ==
    /\ e \in 1..Len(evs)
    /\ evs[e].validate[1] = "resolved"
    /\ ~evs[e].handled
    /\ callLog' = callLog \o << <<"renderData", e, evs[e].data>>,
                                 <<"analyzeTrends", e, evs[e].data>> >>
    /\ evs' = [evs EXCEPT ![e].handled = TRUE]
    /\ UNCHANGED <<corePc, rlgBound, language, currentRegion, regionStored, culturalPc,
                   regionRead, checkPc, activeRules>>
    /\ UNCHANGED <<urgencyVars, fetchVars, netVars, renderVars>>

\* .then(safeData => { ui.renderData(safeData); ai.analyzeTrends(safeData); })
\* Both are async functions: each call returns a promise and cannot throw
\* into the callback.
onFulfilled(e) ==
    /\ e \in 1..Len(evs)
    /\ evs[e].validate[1] = "resolved"
    /\ ~evs[e].handled
    /\ callLog' = callLog \o << <<"renderData", e, evs[e].validate[2]>>,
                                 <<"analyzeTrends", e, evs[e].validate[2]>> >>
    /\ evs' = [evs EXCEPT ![e].handled = TRUE]
    /\ UNCHANGED <<corePc, rlgBound, language, currentRegion, regionStored, culturalPc,
                   regionRead, checkPc, activeRules>>
    /\ UNCHANGED <<urgencyVars, fetchVars, netVars, renderVars>>

\* .catch(err => analytics.trackError(err))
onRejected(e) ==
    /\ e \in 1..Len(evs)
    /\ evs[e].validate[1] = "rejected"
    /\ ~evs[e].handled
    /\ callLog' = Append(callLog, <<"trackError", e, evs[e].validate[2]>>)
    /\ evs' = [evs EXCEPT ![e].handled = TRUE]
    /\ UNCHANGED <<corePc, rlgBound, language, currentRegion, regionStored, culturalPc,
                   regionRead, checkPc, activeRules>>
    /\ UNCHANGED <<urgencyVars, fetchVars, netVars, renderVars>>

NextCore ==
    \/ NewRLGCore
    \/ \E resolves \in BOOLEAN : DetectSettles(resolves)
    \/ HolidaysSettle
    \/ \E data \in Payloads : RlgUpdate(data)
    \/ \E e \in 1..Len(evs) : \E outcome \in validateOutcomes(evs[e].data) : ValidateSettles(e, outcome)
    \/ \E e \in 1..Len(evs) : onFulfilled(e)
    \/ \E e \in 1..Len(evs) : onRejected(e)

SpecCore == InitCore /\ [][NextCore]_vars

\* The entries of callLog that fn made for event e.
callsOf(fn, e) == {i \in 1..Len(callLog) : callLog[i][1] = fn /\ callLog[i][2] = e}

\* C28: for every rlgUpdate event, ui.renderData and ai.analyzeTrends are
\* called only after validateData has resolved and only with the value it
\* resolved to; if validateData rejects, neither is called for that event
\* and the error is passed to analytics.trackError.
C28_AfterValidation ==
    /\ \A i \in 1..Len(callLog) :
          LET fn == callLog[i][1]
              e == callLog[i][2]
              arg == callLog[i][3]
          IN  /\ fn \in {"renderData", "analyzeTrends"} => evs[e].validate = <<"resolved", arg>>
              /\ fn = "trackError" => evs[e].validate = <<"rejected", arg>>
    /\ \A e \in 1..Len(evs) :
          /\ evs[e].validate[1] # "resolved" =>
                callsOf("renderData", e) = {} /\ callsOf("analyzeTrends", e) = {}
          /\ (evs[e].validate[1] = "resolved" /\ evs[e].handled) =>
                /\ Cardinality(callsOf("renderData", e)) = 1
                /\ Cardinality(callsOf("analyzeTrends", e)) = 1
          /\ (evs[e].validate[1] = "rejected" /\ evs[e].handled) =>
                Cardinality(callsOf("trackError", e)) = 1

\* Two events have been handled: validateData resolved for the first, which
\* was rendered and analysed with the anonymized data, and rejected for the
\* second, whose error went to trackError.
C28_Witness ==
    /\ Len(evs) = 2
    /\ evs[1].handled /\ evs[2].handled
    /\ callLog = << <<"renderData", 1, <<"anonymized", evs[1].data>> >>,
                    <<"analyzeTrends", 1, <<"anonymized", evs[1].data>> >>,
                    <<"trackError", 2, <<"cannot anonymize", evs[2].data>> >> >>

\* C29 as stated: checkLocalRegulations reads currentRegion only after
\* detectRegionalSettings has stored the detected region, so that once both
\* have run the compliance rules loaded are those of the detected region.
C29_RulesOfDetectedRegion ==
    /\ regionRead # "unread" => regionStored
    /\ (checkPc # "notcalled" /\ regionStored) =>
          /\ regionRead = currentRegion
          /\ checkPc \in {"importing", "loaded"}

(***************************************************************************)
(* Part 5: RLGChart.render (src/Frontend/js/charts.js:32-43) and           *)
(* RLGVisual.render (src/Frontend/js/D3.js:40-53).                         *)
(*                                                                         *)
(* Both are async functions whose body is one try block of stages and a    *)
(* catch block that calls the error handler.  Several methods and classes  *)
(* the stages and the handlers call are defined in neither file            *)
(* (_sanitize, _validateDataStructure, _createFallbackVisualization,       *)
(* aiEngine.reportError, LineChart, CurrencyFormatter, ...).  A call to a   *)
(* missing method throws a TypeError.  rSupplied tells whether the page    *)
(* supplies what the stages are missing, rHandlerSupplied whether it       *)
(* supplies what the error handler is missing; with both FALSE the two     *)
(* files run as they stand.  What a supplied stage method does is left     *)
(* open: it may return or throw.                                           *)
(***************************************************************************)

\* switch(this.config.type) of _drawBaseChart and of _drawBaseVisualization.
ChartTypes == {"bar", "line", "geo", "radar"}
VisualTypes == {"temporal", "geospatial", "network"}

\* The stages of the try block, in the written order.
stages(class) ==
    IF class = "RLGChart"
    THEN <<"_sanitize", "_applyAIProcessing", "_drawBaseChart",
           "_addCulturalAnnotations", "_addAIInsights", "_enableInteractivity">>
    ELSE <<"_preprocessData", "_validateDataStructure", "_applyAIInsights",
           "_drawBaseVisualization", "_addCulturalAnnotations", "logRender">>

\* default: throw new Error('Unsupported chart type') /
\*          throw new Error('Unsupported visualization type')
supported(class, type) ==
    IF class = "RLGChart" THEN type \in ChartTypes ELSE type \in VisualTypes

\* Whether the stage calls a method or class that neither file defines.
\* RLGChart: _sanitize is not defined; _drawBaseChart constructs BarChart
\* (defined) or LineChart, GeoChart, RadarChart (not defined);
\* _addCulturalAnnotations constructs CurrencyFormatter, _addAIInsights
\* AnomalyDetector, _enableInteractivity ZoomHandler.  RLGVisual:
\* _validateDataStructure is not defined; _applyAIInsights calls
\* _applyAIStyling; the three visualizer constructors call undefined methods.
callsMissing(class, stage, type) ==
    IF class = "RLGChart"
    THEN \/ stage \in {"_sanitize", "_addCulturalAnnotations", "_addAIInsights",
                       "_enableInteractivity"}
         \/ stage = "_drawBaseChart" /\ type # "bar"
    ELSE stage \in {"_validateDataStructure", "_applyAIInsights", "_drawBaseVisualization"}

\* Stages that cannot throw: DataObfuscator.process and
\* VisualizationAudit.logRender have empty bodies.
cannotThrow(class, stage) ==
    class = "RLGVisual" /\ stage \in {"_preprocessData", "logRender"}

\* The stage can run to its end.
canReturn(class, stage, type, supplied) ==
    /\ callsMissing(class, stage, type) => supplied
    /\ stage \in {"_drawBaseChart", "_drawBaseVisualization"} => supported(class, type)

\* The catch block.  _handleError (charts.js:114-119) replaces the container
\* content and logs.  _handleVisualError (D3.js:100-104) logs, then evaluates
\* this._createFallbackVisualization() for container.html and calls
\* this.aiEngine.reportError; neither exists unless supplied, and the
\* TypeError leaves the catch block before container.html is called.
errorHandler(class, handlerSupplied) ==
    IF class = "RLGChart" \/ handlerSupplied
    THEN [pc |-> "resolved", fallbacks |-> 1]
    ELSE [pc |-> "rejected", fallbacks |-> 0]

\* render(data) has been called on a chart or a visual of some type.
InitRender ==
    /\ urgencyIdle
    /\ fetchIdle
    /\ netIdle
    /\ coreIdle
    /\ rClass \in {"RLGChart", "RLGVisual"}
    /\ rType \in ChartTypes \cup VisualTypes \cup {"pie"}
    /\ rSupplied \in BOOLEAN
    /\ rHandlerSupplied \in BOOLEAN
    /\ rPc = "try"
    /\ rRan = <<>>
    /\ rThrown = "none"
    /\ rFallbacks = 0

\* The next stage of the try block returns (or the promise it is awaited on
\* resolves); after the last stage render resolves.
StageReturns ==
    /\ rPc = "try"
    /\ LET stage == stages(rClass)[Len(rRan) + 1]
       IN  /\ canReturn(rClass, stage, rType, rSupplied)
           /\ rRan' = Append(rRan, stage)
    /\ rPc' = (IF Len(rRan) + 1 = Len(stages(rClass)) THEN "resolved" ELSE "try")
    /\ UNCHANGED <<rClass, rType, rSupplied, rHandlerSupplied, rThrown, rFallbacks>>
    /\ UNCHANGED <<urgencyVars, fetchVars, netVars, coreVars>>

\* The next stage of the try block throws (or the promise it is awaited on
\* rejects): control passes to the catch block.
StageThrows ==
    /\ rPc = "try"
    /\ LET stage == stages(rClass)[Len(rRan) + 1]
       IN  /\ ~cannotThrow(rClass, stage)
           /\ rThrown' = stage
    /\ rPc' = "catch"
    /\ UNCHANGED <<rClass, rType, rSupplied, rHandlerSupplied, rRan, rFallbacks>>
    /\ UNCHANGED <<urgencyVars, fetchVars, netVars, coreVars>>

\* catch (error) { this._handleError(error) } /
\* catch (error) { this._handleVisualError(error) }
HandleError ==
    /\ rPc = "catch"
    /\ LET h == errorHandler(rClass, rHandlerSupplied)
       IN  /\ rPc' = h.pc
           /\ rFallbacks' = rFallbacks + h.fallbacks
    /\ UNCHANGED <<rClass, rType, rSupplied, rHandlerSupplied, rRan, rThrown>>
    /\ UNCHANGED <<urgencyVars, fetchVars, netVars, coreVars>>

NextRender ==
    \/ StageReturns
    \/ StageThrows
    \/ HandleError

SpecRender == InitRender /\ [][NextRender]_vars

\* C30 as stated: RLGChart.render and RLGVisual.render never reject; their
\* stages run in the written order; an error raised by any stage (an
\* unsupported type included) skips every later stage of that call; and the
\* error handler replaces the container content with the fallback exactly
\* once for that call.
C30_RenderNeverRejects ==
    /\ rPc # "rejected"
    /\ rRan = SubSeq(stages(rClass), 1, Len(rRan))
    /\ (rPc = "try" /\ rRan # <<>>) => rThrown = "none"
    /\ (rPc \in {"resolved", "rejected"} /\ rThrown # "none") => rFallbacks = 1
    /\ rThrown = "none" => rFallbacks = 0
    /\ (~supported(rClass, rType) /\ rPc \in {"resolved", "rejected"}) => rThrown # "none"
====
